---- MODULE Spec2Model ----
(***************************************************************************)
(* WebNN execution provider helpers (builders/helper.cc):                  *)
(*   GetSupportedNodes          - partition of the topological order into  *)
(*                                runs of supported nodes                  *)
(*   IsInputSupported           - eligibility of a graph input             *)
(*   IsNodeSupported            - dispatch to the op builder's checker     *)
(*   CollectAllInitializedTensors - initializers of a graph and ancestors  *)
(*   GetBidirectionalBroadcastShape - right-aligned broadcasting           *)
(***************************************************************************)
EXTENDS Integers, Sequences, FiniteSets, TLC

\* ------------------------------------------------------------------ bounds
MaxNodes == 4
MaxInputs == 1
MaxDepth == 3
MaxRank == 3
MaxDim == 4

\* ------------------------------------------------------------ state
VARIABLES
  graphs,                 \* chain of graphs, innermost (the viewed graph) first:
                          \* graphs[k] is the own initializer map of level k
  inputs,                 \* graph_viewer.GetInputs(): sequence of NodeArg
  node_indices,           \* graph_viewer.GetNodesInTopologicalOrder()
  graph_nodes,            \* graph_viewer.GetNode: NodeIndex -> Node
  wnn_builder,            \* op kinds the browser's MLGraphBuilder implements
  pc,                     \* position in GetSupportedNodes
  i,                      \* loop counter of the node scan
  supported_node_group,   \* the current-group accumulator
  supported_node_groups,  \* the finished groups / the returned value
  platform_checked,       \* node indices CheckSingleOp was evaluated on
  instance_checked,       \* node indices IsNodeSupported was evaluated on
  handed,                 \* initializer sets handed to IsOpSupported
  shape_a, shape_b,       \* operands of GetBidirectionalBroadcastShape
  bcast_ab, bcast_ba,     \* its results on (a, b) and on (b, a)
  bpc,
  all_initializers,       \* value returned by CollectAllInitializedTensors
  cpc

vars == <<graphs, inputs, node_indices, graph_nodes, wnn_builder, pc, i,
          supported_node_group, supported_node_groups, platform_checked,
          instance_checked, handed, shape_a, shape_b, bcast_ab, bcast_ba,
          bpc, all_initializers, cpc>>

graphVars == <<graphs, inputs, node_indices, graph_nodes, wnn_builder>>
scanVars == <<pc, i, supported_node_group, supported_node_groups,
              platform_checked, instance_checked, handed>>
bcastVars == <<shape_a, shape_b, bcast_ab, bcast_ba, bpc>>
collectVars == <<all_initializers, cpc>>

\* ------------------------------------------------------------ helpers
Range(s) == {s[k] : k \in 1..Len(s)}

Min(x, y) == IF x < y THEN x ELSE y

Max(x, y) == IF x > y THEN x ELSE y

SeqsUpTo(S, n) == UNION {[1..k -> S] : k \in 0..n}

\* ------------------------------------------------------------ graph data
\* A NodeArg is [name, has_shape, dims]: has_shape is Shape() != nullptr and
\* dims the shape_proto->dim() list of [has_dim_value, dim_value] entries.
Dim(v) == [has_dim_value |-> TRUE, dim_value |-> v]

Dynamic == [has_dim_value |-> FALSE, dim_value |-> 0]

OpTypes == {"Add", "Reshape", "Foo"}

\* Graph::IsSubgraph of level k of the chain: it has a parent.
IsSubgraph(gs, k) == k < Len(gs)

\* Graph::ParentGraph
ParentGraph(k) == k + 1

\* Graph::GetAllInitializedTensors: the level's own name -> tensor map.
GetAllInitializedTensors(gs, k) == gs[k]

\* ------------------------------------------------ CollectAllInitializedTensors
\* std::unordered_map::insert(first, last): keys already present are kept.
InsertRangeOverwrite(acc, cur) ==
  [n \in DOMAIN acc \cup DOMAIN cur |-> IF n \in DOMAIN cur THEN cur[n] ELSE acc[n]]

InsertRange(acc, cur) ==
  [n \in DOMAIN acc \cup DOMAIN cur |-> IF n \in DOMAIN acc THEN acc[n] ELSE cur[n]]

EmptySet == [n \in {} |-> 0]

RECURSIVE CollectWalk(_, _, _)
\* the while loop and the top-level insert, from cur_graph = level k
CollectWalk(gs, k, acc) ==
  IF IsSubgraph(gs, k)
    THEN CollectWalk(gs, ParentGraph(k),
                     InsertRange(acc, GetAllInitializedTensors(gs, k)))
    ELSE InsertRange(acc, GetAllInitializedTensors(gs, k))

CollectAllInitializedTensors(gs) ==
  IF IsSubgraph(gs, 1) THEN CollectWalk(gs, 1, EmptySet) ELSE EmptySet

\* ------------------------------------------------------------ predicates
\* Registry of op builders (GetOpBuilders): kinds with a registered checker.
op_builders == {"Add", "Reshape"}

\* CheckSingleOp(op_type, wnn_builder, device_type)
CheckSingleOp(op_type, builder) == op_type \in builder

\* op_builder->IsOpSupported(initializers, node, ...): a checker that needs a
\* constant operand accepts the node only if the operand is an initializer.
IsOpSupported(initializers, node) ==
  node.operand = "" \/ node.operand \in DOMAIN initializers

IsNodeSupportedNoBuilder(node, gs) ==
  IF node.OpType \in op_builders
    THEN IsOpSupported(GetAllInitializedTensors(gs, 1), node)
    ELSE TRUE

IsNodeSupported(node, gs) ==
  IF node.OpType \in op_builders
    THEN IsOpSupported(GetAllInitializedTensors(gs, 1), node)
    ELSE FALSE

IsInputSupportedNoShape(input) ==
  IF input.name = "" THEN TRUE
  ELSE IF ~input.has_shape THEN TRUE
  ELSE ~ \E d \in 1..Len(input.dims) : ~input.dims[d].has_dim_value

IsInputSupported(input) ==
  IF input.name = "" THEN TRUE
  ELSE IF ~input.has_shape THEN FALSE
  ELSE ~ \E d \in 1..Len(input.dims) : ~input.dims[d].has_dim_value

\* ------------------------------------------------------------ GetSupportedNodes
\* the node's `supported` flag of one loop iteration
NodeSupportedNoPlatform(node, builder, gs) == IsNodeSupported(node, gs)

NodeSupported(node, builder, gs) ==
  IF CheckSingleOp(node.OpType, builder) THEN IsNodeSupported(node, gs) ELSE FALSE

\* the accumulator after one loop iteration
NextGroupRestart(supported, group, node_idx) ==
  IF supported THEN <<node_idx>> ELSE <<>>

NextGroupPrepend(supported, group, node_idx) ==
  IF supported THEN <<node_idx>> \o group ELSE <<>>

NextGroup(supported, group, node_idx) ==
  IF supported THEN Append(group, node_idx)
  ELSE IF group # <<>> THEN <<>> ELSE group

\* the finished groups after one loop iteration
NextGroupsAlwaysSeal(supported, groups, group) ==
  IF supported THEN groups ELSE Append(groups, group)

NextGroups(supported, groups, group) ==
  IF supported THEN groups
  ELSE IF group # <<>> THEN Append(groups, group) ELSE groups

\* the returned value after the scan
FinalGroupsNoSeal(groups, group) == groups

FinalGroups(groups, group) ==
  IF group # <<>> THEN Append(groups, group) ELSE groups

\* lines 93-97: the loop over the graph inputs, with its early return
CheckInputs ==
  /\ pc = "inputs"
  /\ IF \E k \in 1..Len(inputs) : ~IsInputSupported(inputs[k])
       THEN pc' = "done"
       ELSE pc' = "scan"
  /\ UNCHANGED <<i, supported_node_group, supported_node_groups,
                 platform_checked, instance_checked, handed>>
  /\ UNCHANGED <<graphVars, bcastVars, collectVars>>

\* lines 102-125: one iteration of the scan
ScanNode ==
  /\ pc = "scan"
  /\ i < Len(node_indices)
  /\ LET node_idx == node_indices[i + 1]
         node == graph_nodes[node_idx]
         platform == CheckSingleOp(node.OpType, wnn_builder)
         supported == NodeSupported(node, wnn_builder, graphs)
     IN /\ platform_checked' = Append(platform_checked, node_idx)
        /\ instance_checked' = IF platform THEN Append(instance_checked, node_idx)
                                           ELSE instance_checked
        /\ handed' = IF platform /\ node.OpType \in op_builders
                       THEN Append(handed, GetAllInitializedTensors(graphs, 1))
                       ELSE handed
        /\ supported_node_group' = NextGroup(supported, supported_node_group, node_idx)
        /\ supported_node_groups' =
             NextGroups(supported, supported_node_groups, supported_node_group)
  /\ i' = i + 1
  /\ pc' = pc
  /\ UNCHANGED <<graphVars, bcastVars, collectVars>>

\* lines 127-131: the final seal and the return
Return ==
  /\ pc = "scan"
  /\ i = Len(node_indices)
  /\ supported_node_groups' = FinalGroups(supported_node_groups, supported_node_group)
  /\ pc' = "done"
  /\ UNCHANGED <<i, supported_node_group, platform_checked, instance_checked, handed>>
  /\ UNCHANGED <<graphVars, bcastVars, collectVars>>

\* ------------------------------------------------------------ inputs of the model
NodeKinds ==
  { [OpType |-> "Add", operand |-> ""],
    [OpType |-> "Reshape", operand |-> "a"],
    [OpType |-> "Foo", operand |-> ""] }

\* topological orders over the indices 0..n-1: ascending and descending
TopoOrders(n) == { [p \in 1..n |-> p - 1], [p \in 1..n |-> n - p] }

InputKinds ==
  { [name |-> "x", has_shape |-> TRUE, dims |-> <<Dim(2), Dim(3)>>],
    [name |-> "x", has_shape |-> FALSE, dims |-> <<>>],
    [name |-> "x", has_shape |-> TRUE, dims |-> <<Dim(2), Dynamic>>],
    [name |-> "", has_shape |-> FALSE, dims |-> <<>>] }

\* the own initializer map of level k over the names ns: the tensor of a
\* name is identified by the level that owns it
OwnMaps(ns, k) == { [n \in D |-> k] : D \in SUBSET ns }

RECURSIVE Chains(_, _, _)
Chains(ns, k, len) ==
  IF k > len THEN {<<>>}
  ELSE { <<m>> \o rest : m \in OwnMaps(ns, k), rest \in Chains(ns, k + 1, len) }

GraphChains(ns, maxlen) == UNION { Chains(ns, 1, len) : len \in 1..maxlen }

IdleBroadcast ==
  /\ shape_a = <<>> /\ shape_b = <<>>
  /\ bcast_ab = <<>> /\ bcast_ba = <<>>
  /\ bpc = "idle"

IdleCollect ==
  /\ all_initializers = EmptySet
  /\ cpc = "idle"

IdlePartition ==
  /\ graphs = <<EmptySet>>
  /\ inputs = <<>>
  /\ node_indices = <<>>
  /\ graph_nodes = <<>>
  /\ wnn_builder = {}
  /\ pc = "idle"
  /\ i = 0
  /\ supported_node_group = <<>>
  /\ supported_node_groups = <<>>
  /\ platform_checked = <<>>
  /\ instance_checked = <<>>
  /\ handed = <<>>

Init ==
  /\ graphs \in GraphChains({"a"}, MaxDepth - 1)
  /\ inputs \in SeqsUpTo(InputKinds, MaxInputs)
  /\ \E n \in 0..MaxNodes :
       /\ node_indices \in TopoOrders(n)
       /\ graph_nodes \in [0..(n - 1) -> NodeKinds]
  /\ wnn_builder \in {OpTypes, {"Add", "Foo"}}
  /\ pc = "inputs"
  /\ i = 0
  /\ supported_node_group = <<>>
  /\ supported_node_groups = <<>>
  /\ platform_checked = <<>>
  /\ instance_checked = <<>>
  /\ handed = <<>>
  /\ IdleBroadcast
  /\ IdleCollect

Next == CheckInputs \/ ScanNode \/ Return

Spec == Init /\ [][Next]_vars

\* ------------------------------------------------ GetBidirectionalBroadcastShape
\* line 201: the test that makes the call return false
IncompatibleOneSided(da, db) == da # db /\ da # 1

Incompatible(da, db) == da # db /\ da # 1 /\ db # 1

\* line 204: the output dimension at a shared offset
SharedDimFirst(da, db) == da

SharedDim(da, db) == Max(da, db)

\* line 207: the output dimension at an offset of the longer shape only
RemainingDim(a, b, k) ==
  IF Len(a) > Len(b) THEN a[Len(a) - k] ELSE b[Len(b) - k]

RECURSIVE BroadcastLoop(_, _, _, _)
\* lines 194-211: the loop from counter k on, on the output vector out
BroadcastLoop(a, b, out, k) ==
  LET size_a == Len(a)
      size_b == Len(b)
      smaller_size == Min(size_a, size_b)
      larger_size == Max(size_a, size_b)
  IN IF k >= larger_size THEN [ok |-> TRUE, output_shape |-> out]
     ELSE IF k < smaller_size
       THEN IF Incompatible(a[size_a - k], b[size_b - k])
              THEN [ok |-> FALSE, output_shape |-> out]
              ELSE BroadcastLoop(a, b,
                     [out EXCEPT ![larger_size - k] = SharedDim(a[size_a - k], b[size_b - k])],
                     k + 1)
       ELSE BroadcastLoop(a, b,
              [out EXCEPT ![larger_size - k] = RemainingDim(a, b, k)], k + 1)

\* lines 187-192 and the loop: output_shape.resize(larger_size) of an empty vector
GetBidirectionalBroadcastShape(a, b) ==
  BroadcastLoop(a, b, [k \in 1..Max(Len(a), Len(b)) |-> 0], 0)

Shapes == SeqsUpTo(1..MaxDim, MaxRank)

InitBroadcast ==
  /\ shape_a \in Shapes
  /\ shape_b \in Shapes
  /\ bcast_ab = <<>> /\ bcast_ba = <<>>
  /\ bpc = "start"
  /\ IdlePartition
  /\ IdleCollect

Broadcast ==
  /\ bpc = "start"
  /\ bcast_ab' = GetBidirectionalBroadcastShape(shape_a, shape_b)
  /\ bcast_ba' = GetBidirectionalBroadcastShape(shape_b, shape_a)
  /\ bpc' = "done"
  /\ UNCHANGED <<shape_a, shape_b, graphVars, scanVars, collectVars>>

NextBroadcast == Broadcast

SpecBroadcast == InitBroadcast /\ [][NextBroadcast]_vars

\* ------------------------------------------------ CollectAllInitializedTensors
InitCollect ==
  /\ graphs \in GraphChains({"a", "b"}, MaxDepth)
  /\ inputs = <<>>
  /\ node_indices = <<>>
  /\ graph_nodes = <<>>
  /\ wnn_builder = {}
  /\ pc = "idle"
  /\ i = 0
  /\ supported_node_group = <<>>
  /\ supported_node_groups = <<>>
  /\ platform_checked = <<>>
  /\ instance_checked = <<>>
  /\ handed = <<>>
  /\ all_initializers = EmptySet
  /\ cpc = "start"
  /\ IdleBroadcast

Collect ==
  /\ cpc = "start"
  /\ all_initializers' = CollectAllInitializedTensors(graphs)
  /\ cpc' = "done"
  /\ UNCHANGED <<graphVars, scanVars, bcastVars>>

NextCollect == Collect

SpecCollect == InitCollect /\ [][NextCollect]_vars

\* ------------------------------------------------------------ properties
RECURSIVE Flatten(_)
Flatten(gs) == IF gs = <<>> THEN <<>> ELSE Head(gs) \o Flatten(Tail(gs))

\* position of a node index in the topological order
PosOf(idx) == CHOOSE p \in 1..Len(node_indices) : node_indices[p] = idx

NodeAt(p) == graph_nodes[node_indices[p]]

\* the node at position p passes the platform check and the instance check
SupportedAt(p) ==
  /\ NodeAt(p).OpType \in wnn_builder
  /\ NodeAt(p).OpType \in op_builders
  /\ NodeAt(p).operand = "" \/ NodeAt(p).operand \in DOMAIN graphs[1]

\* some graph input with a non-empty name has no shape or a dynamic dimension
SomeInputIneligible ==
  \E k \in 1..Len(inputs) :
     /\ inputs[k].name # ""
     /\ \/ ~inputs[k].has_shape
        \/ \E d \in 1..Len(inputs[k].dims) : ~inputs[k].dims[d].has_dim_value

SameGroup(x, y) ==
  \E g \in 1..Len(supported_node_groups) :
     x \in Range(supported_node_groups[g]) /\ y \in Range(supported_node_groups[g])

\* C1 (maximality): in the returned value of a graph whose inputs are all
\* eligible, two supported nodes at positions p < q of the topological order
\* with no unsupported node between them are in the same group.
C1_Maximality ==
  (pc = "done" /\ ~SomeInputIneligible) =>
    \A p, q \in 1..Len(node_indices) :
       (p < q /\ \A r \in p..q : SupportedAt(r))
         => SameGroup(node_indices[p], node_indices[q])

\* [A supported, B supported, C unsupported, D supported] yields [[A,B],[D]]
C1_Witness ==
  /\ pc = "done" /\ ~SomeInputIneligible
  /\ node_indices = <<0, 1, 2, 3>>
  /\ SupportedAt(1) /\ SupportedAt(2) /\ ~SupportedAt(3) /\ SupportedAt(4)
  /\ supported_node_groups = <<<<0, 1>>, <<3>>>>

\* C2 (soundness): every node index in a finished group or in the accumulator
\* was given to the platform check and to the instance check, and both
\* returned true; its op kind has a registered op builder.
C2_Soundness ==
  \A idx \in Range(Flatten(supported_node_groups)) \cup Range(supported_node_group) :
     /\ idx \in Range(platform_checked)
     /\ idx \in Range(instance_checked)
     /\ CheckSingleOp(graph_nodes[idx].OpType, wnn_builder)
     /\ IsNodeSupported(graph_nodes[idx], graphs)
     /\ graph_nodes[idx].OpType \in op_builders

\* a returned value with a group, a node left out by the platform check alone
\* and a node left out for want of an op builder
C2_Witness ==
  /\ pc = "done"
  /\ supported_node_groups # <<>>
  /\ \E p \in 1..Len(node_indices) :
        /\ ~CheckSingleOp(NodeAt(p).OpType, wnn_builder)
        /\ IsNodeSupported(NodeAt(p), graphs)
        /\ node_indices[p] \notin Range(Flatten(supported_node_groups))
  /\ \E p \in 1..Len(node_indices) :
        /\ CheckSingleOp(NodeAt(p).OpType, wnn_builder)
        /\ NodeAt(p).OpType \notin op_builders
        /\ node_indices[p] \notin Range(Flatten(supported_node_groups))

\* the groups concatenated, with the accumulator while the scan runs
Emitted ==
  IF pc = "done" THEN Flatten(supported_node_groups)
  ELSE Flatten(supported_node_groups) \o supported_node_group

\* C3 (order preservation): at every step and in the returned value the
\* concatenation of the groups is a subsequence of the topological order, so
\* no index occurs twice and relative order is that of the topological order.
C3_OrderPreserved ==
  /\ \A k \in 1..Len(Emitted) : Emitted[k] \in Range(node_indices)
  /\ \A k, l \in 1..Len(Emitted) : k < l => PosOf(Emitted[k]) < PosOf(Emitted[l])

\* a returned value of several groups for a descending topological order
C3_Witness ==
  /\ pc = "done"
  /\ node_indices = <<3, 2, 1, 0>>
  /\ Len(supported_node_groups) = 2
  /\ Len(Emitted) = 3

\* C4 (short-circuit): with an ineligible named input the call returns no
\* group and has evaluated no platform or instance check; inputs with an
\* empty name never cause this, so otherwise every node is examined.
C4_ShortCircuit ==
  pc = "done" =>
    IF SomeInputIneligible
      THEN /\ supported_node_groups = <<>>
           /\ platform_checked = <<>>
           /\ instance_checked = <<>>
           /\ i = 0
      ELSE platform_checked = node_indices

\* a rejected graph whose nodes are all supported
C4_Witness ==
  /\ pc = "done"
  /\ SomeInputIneligible
  /\ Len(node_indices) = MaxNodes
  /\ \A p \in 1..Len(node_indices) : SupportedAt(p)
  /\ supported_node_groups = <<>>

\* an unnamed input without shape does not reject the graph
C4_WitnessOptional ==
  /\ pc = "done"
  /\ \E k \in 1..Len(inputs) : inputs[k].name = "" /\ ~inputs[k].has_shape
  /\ supported_node_groups # <<>>

AllSupported == \A p \in 1..Len(node_indices) : SupportedAt(p)

\* C5 as stated: eligible inputs and all nodes supported give exactly one
\* group, which is the topological order.
C5_Original ==
  (pc = "done" /\ ~SomeInputIneligible /\ AllSupported) =>
    supported_node_groups = <<node_indices>>

\* C5 (amended): eligible inputs and all nodes supported give exactly one
\* group, the topological order, when the graph has at least one node, and
\* no group when it has none.
C5_OneGroup ==
  (pc = "done" /\ ~SomeInputIneligible /\ AllSupported) =>
    IF node_indices # <<>>
      THEN supported_node_groups = <<node_indices>>
      ELSE supported_node_groups = <<>>

C5_Witness ==
  /\ pc = "done" /\ ~SomeInputIneligible /\ AllSupported
  /\ Len(node_indices) = MaxNodes
  /\ supported_node_groups = <<node_indices>>

\* ---- right-aligned reference of broadcasting
RefCompatible(a, b) ==
  \A k \in 0..(Min(Len(a), Len(b)) - 1) :
     a[Len(a) - k] = b[Len(b) - k] \/ a[Len(a) - k] = 1 \/ b[Len(b) - k] = 1

RefShape(a, b) ==
  LET n == Max(Len(a), Len(b))
      longer == IF Len(a) >= Len(b) THEN a ELSE b
  IN [j \in 1..n |->
        LET k == n - j
        IN IF k < Min(Len(a), Len(b))
             THEN (IF a[Len(a) - k] >= b[Len(b) - k] THEN a[Len(a) - k] ELSE b[Len(b) - k])
             ELSE longer[Len(longer) - k]]

\* C6: the call returns false iff some shared trailing offset has different
\* dimensions neither of which is 1; otherwise the output has the length of
\* the longer shape, the maximum at shared offsets and the longer shape's
\* dimension elsewhere.
C6_BroadcastReference ==
  bpc = "done" =>
    /\ bcast_ab.ok = RefCompatible(shape_a, shape_b)
    /\ bcast_ab.ok => bcast_ab.output_shape = RefShape(shape_a, shape_b)

\* [2,3,4] with [3,4] gives [2,3,4]
C6_Witness ==
  /\ bpc = "done"
  /\ shape_a = <<2, 3, 4>> /\ shape_b = <<3, 4>>
  /\ bcast_ab = [ok |-> TRUE, output_shape |-> <<2, 3, 4>>]

\* [2,3] with [4,3] fails
C6_WitnessFail ==
  /\ bpc = "done"
  /\ shape_a = <<2, 3>> /\ shape_b = <<4, 3>>
  /\ ~bcast_ab.ok

\* C7: the calls on (A, B) and on (B, A) return the same boolean and, when
\* they succeed, the same output shape.
C7_BroadcastSymmetric ==
  bpc = "done" =>
    /\ bcast_ab.ok = bcast_ba.ok
    /\ bcast_ab.ok => bcast_ab.output_shape = bcast_ba.output_shape

\* operands of different rank that both stretch
C7_Witness ==
  /\ bpc = "done"
  /\ shape_a = <<3, 1>> /\ shape_b = <<2, 1, 4>>
  /\ bcast_ab.ok /\ bcast_ba.ok
  /\ bcast_ba.output_shape = <<2, 3, 4>>

\* ---- reference of the initializer collection
AllNames(gs) == UNION {DOMAIN gs[k] : k \in 1..Len(gs)}

Innermost(gs, n) ==
  CHOOSE k \in 1..Len(gs) :
     n \in DOMAIN gs[k] /\ \A l \in 1..(k - 1) : n \notin DOMAIN gs[l]

\* C8: empty for a graph that is not a subgraph; for a subgraph the union of
\* the initializers of the graph and all its ancestors, each name with the
\* entry of the most deeply nested scope that defines it.
C8_CollectInnermostWins ==
  cpc = "done" =>
    IF Len(graphs) = 1
      THEN all_initializers = EmptySet
      ELSE /\ DOMAIN all_initializers = AllNames(graphs)
           /\ \A n \in AllNames(graphs) :
                 all_initializers[n] = graphs[Innermost(graphs, n)][n]

\* a name defined by the subgraph and by the top-level graph two levels up,
\* another one only by the graph in between
C8_Witness ==
  /\ cpc = "done"
  /\ Len(graphs) = 3
  /\ DOMAIN graphs[1] = {"a"} /\ DOMAIN graphs[2] = {"b"} /\ DOMAIN graphs[3] = {"a", "b"}
  /\ all_initializers["a"] = graphs[1]["a"]
  /\ all_initializers["b"] = graphs[2]["b"]

\* the top-level graph has initializers and the result is empty
C8_WitnessTopLevel ==
  /\ cpc = "done"
  /\ Len(graphs) = 1 /\ DOMAIN graphs[1] = {"a", "b"}
  /\ all_initializers = EmptySet

\* C9: for a node of a nested subgraph, the initializer set handed to the
\* op builder's checker is the result of CollectAllInitializedTensors, so a
\* constant defined only in an ancestor is visible to the checker.
C9_CheckerSeesCollected ==
  IsSubgraph(graphs, 1) =>
    \A k \in 1..Len(handed) : handed[k] = CollectAllInitializedTensors(graphs)

\* one scan step on an unsupported node
UnsupportedStep ==
  /\ pc = "scan" /\ i < Len(node_indices) /\ i' = i + 1
  /\ ~SupportedAt(i + 1)

C10Step ==
  /\ (UnsupportedStep /\ supported_node_group = <<>>) =>
        /\ supported_node_groups' = supported_node_groups
        /\ supported_node_group' = supported_node_group
  /\ (UnsupportedStep /\ supported_node_group # <<>>) =>
        /\ supported_node_groups' = Append(supported_node_groups, supported_node_group)
        /\ supported_node_group' = <<>>
  /\ (pc = "scan" /\ pc' = "done") =>
        supported_node_groups' =
          IF supported_node_group # <<>>
            THEN Append(supported_node_groups, supported_node_group)
            ELSE supported_node_groups

\* C10: an unsupported node met with an empty accumulator changes neither
\* the finished groups nor the accumulator, one met with a non-empty
\* accumulator appends exactly that group and empties the accumulator, the
\* end of the scan seals only a non-empty accumulator; so no finished group
\* is ever empty.
C10_NoEmptyGroup ==
  /\ [](\A g \in 1..Len(supported_node_groups) : supported_node_groups[g] # <<>>)
  /\ [][C10Step]_vars

\* a run of two adjacent unsupported nodes between two supported ones
C10_Witness ==
  /\ pc = "done"
  /\ node_indices = <<0, 1, 2, 3>>
  /\ SupportedAt(1) /\ ~SupportedAt(2) /\ ~SupportedAt(3) /\ SupportedAt(4)
  /\ supported_node_groups = <<<<0>>, <<3>>>>

\* a graph with no nodes returns no group
C10_WitnessNoNodes ==
  /\ pc = "done" /\ ~SomeInputIneligible
  /\ node_indices = <<>>
  /\ supported_node_groups = <<>>

====
